---------------------------- MODULE Spec2Model ----------------------------
(***************************************************************************)
(* A model of huffv (src/src/huffv.rs): the converter of a snarkjs Groth16 *)
(* verification key into a Huff verifier contract.                         *)
(*                                                                         *)
(* Text is modelled as a sequence of one-character strings, so that        *)
(* formatting, parsing, padding, concatenation and textual replacement     *)
(* are computed character by character.  Big integers (ibig::IBig) are     *)
(* modelled as a sign and a sequence of digits, most significant first,    *)
(* because a field element does not fit a machine integer.                 *)
(***************************************************************************)
EXTENDS Integers, Sequences, FiniteSets, TLC

VARIABLES
    build,      \* "debug" | "release": the build profile of the binary
    enc_in,     \* SpecEnc: the argument of encode_num
    enc_out,    \* SpecEnc: the outcome of encode_num
    lay_n,      \* SpecLayout: key.ic.len()
    lay_out,    \* SpecLayout: the values main substitutes for the layout tokens
    args_path,  \* main: args.path and what is found there
    key,        \* main: the deserialized VerificationKey
    template,   \* main: HUFF_VERIFIER_CONTRACT
    pc,         \* main: the position of the run
    packed,     \* main: the text to_packed has built so far
    n_enc,      \* main: the number of encode_num calls that have returned
    contract,   \* main: the local variable contract
    n_sub,      \* main: the number of replace calls that have returned
    stdout,     \* main: the lines printed to standard output
    stderr      \* main: the lines printed to standard error

vars == <<build, enc_in, enc_out, lay_n, lay_out, args_path, key, template,
          pc, packed, n_enc, contract, n_sub, stdout, stderr>>

encVars == <<enc_in, enc_out>>
layVars == <<lay_n, lay_out>>
mainVars == <<args_path, key, template, pc, packed, n_enc, contract, n_sub,
              stdout, stderr>>

---------------------------------------------------------------------------
(* Characters and digits *)

HexDigits == <<"0", "1", "2", "3", "4", "5", "6", "7", "8", "9",
               "a", "b", "c", "d", "e", "f">>

HexCharSet == {HexDigits[i] : i \in 1..16}
DecCharSet == {HexDigits[i] : i \in 1..10}

\* The character of a digit value below 16, and back.
DigitChar(v) == HexDigits[v + 1]
DigitVal(c) == CHOOSE v \in 0..15 : HexDigits[v + 1] = c

Min(S) == CHOOSE x \in S : \A y \in S : x <= y

\* A digit sequence without its leading zeros (zero is the empty sequence).
StripZeros(d) ==
    IF \A i \in 1..Len(d) : d[i] = 0 THEN <<>>
    ELSE LET first == CHOOSE i \in 1..Len(d) :
                          d[i] # 0 /\ \A j \in 1..(i - 1) : d[j] = 0
         IN  SubSeq(d, first, Len(d))

\* Long division of the base-b digit sequence d by m: q holds the quotient
\* digits found so far and r the remainder carried to the next digit.
RECURSIVE DivRem(_, _, _, _, _)
DivRem(d, b, m, r, q) ==
    IF Len(q) >= Len(d) THEN [q |-> q, r |-> r]
    ELSE LET cur == r * b + d[Len(q) + 1]
         IN  DivRem(d, b, m, cur % m, Append(q, cur \div m))

\* The base-m digits of the number whose base-b digits are d.
RECURSIVE ToRadix(_, _, _)
ToRadix(d, b, m) ==
    IF d = <<>> THEN <<>>
    ELSE LET qr == DivRem(d, b, m, 0, <<>>)
         IN  Append(ToRadix(StripZeros(qr.q), b, m), qr.r)

\* Big numbers are converted four digits at a time, as words: the base-b
\* digits d as base-b^4 digits, and back.
Group4(d, b) ==
    LET n == (Len(d) + 3) \div 4
        p == [i \in 1..(4 * n) |->
                IF i <= 4 * n - Len(d) THEN 0 ELSE d[i - (4 * n - Len(d))]]
    IN  [j \in 1..n |-> ((p[4 * j - 3] * b + p[4 * j - 2]) * b + p[4 * j - 1]) * b
                        + p[4 * j]]

Ungroup4(w, b) ==
    StripZeros([i \in 1..(4 * Len(w)) |->
        LET x == w[(i + 3) \div 4]
            k == (i - 1) % 4
        IN  IF k = 0 THEN x \div (b * b * b)
            ELSE IF k = 1 THEN (x \div (b * b)) % b
            ELSE IF k = 2 THEN (x \div b) % b
            ELSE x % b])

\* The hex digits of a number given by its decimal digits, and back.
DecToHex(d) == Ungroup4(ToRadix(Group4(d, 10), 10000, 65536), 16)
HexToDec(h) == Ungroup4(ToRadix(Group4(h, 16), 65536, 10000), 10)

Repeat(c, n) == [i \in 1..n |-> c]

---------------------------------------------------------------------------
(* ibig::IBig, as encode_num uses it *)

\* IBig::from_str_radix(n, 10): an optional sign, '-' or else '+', then one
\* or more decimal digits.  The value is a sign and a magnitude; a zero is
\* never negative.
from_str_radix(n) ==
    LET neg  == Len(n) > 0 /\ n[1] = "-"
        plus == Len(n) > 0 /\ n[1] = "+"
        body == IF neg \/ plus THEN Tail(n) ELSE n
    IN  IF body = <<>> \/ \E i \in 1..Len(body) : body[i] \notin DecCharSet
        THEN [ok |-> FALSE]
        ELSE LET mag == StripZeros([i \in 1..Len(body) |-> DigitVal(body[i])])
             IN  [ok |-> TRUE, neg |-> neg /\ mag # <<>>, mag |-> mag]

\* num.in_radix(16).to_string(): lowercase digits, no prefix, "-" before a
\* negative number, "0" for zero.
in_radix_16(num) ==
    LET h == DecToHex(num.mag)
        digits == IF h = <<>> THEN <<"0">>
                  ELSE [i \in 1..Len(h) |-> DigitChar(h[i])]
    IN  IF num.neg THEN <<"-">> \o digits ELSE digits

---------------------------------------------------------------------------
(* encode_num *)

HexWidth == 64

ParsePanic == [kind |-> "panic", msg |-> "Failed to parse verification key."]

\* 64 - encoded.len() on usize, with encoded.len() > 64: a debug build
\* panics on the subtraction; a release build wraps to a count above
\* isize::MAX, and "0".repeat(count) panics for want of capacity.
WidthPanic(b) ==
    [kind |-> "panic",
     msg  |-> IF b = "debug" THEN "attempt to subtract with overflow"
                             ELSE "capacity overflow"]

\* Variant: the padding is forgotten.
encode_num_nopad(n, b) ==
    LET num == from_str_radix(n)
    IN  IF ~num.ok THEN ParsePanic
        ELSE LET encoded == in_radix_16(num)
             IN  IF Len(encoded) > HexWidth THEN WidthPanic(b)
                 ELSE [kind |-> "ok", val |-> encoded]

\* Variant: a value too wide is cut to its last 64 digits.
encode_num_wrap(n, b) ==
    LET num == from_str_radix(n)
    IN  IF ~num.ok THEN ParsePanic
        ELSE LET encoded == in_radix_16(num)
             IN  IF Len(encoded) > HexWidth
                 THEN [kind |-> "ok",
                       val  |-> SubSeq(encoded, Len(encoded) - HexWidth + 1,
                                       Len(encoded))]
                 ELSE [kind |-> "ok",
                       val  |-> Repeat("0", HexWidth - Len(encoded)) \o encoded]

encode_num(n, b) ==
    LET num == from_str_radix(n)
    IN  IF ~num.ok THEN ParsePanic
        ELSE LET encoded == in_radix_16(num)
             IN  IF Len(encoded) # HexWidth
                 THEN IF Len(encoded) > HexWidth
                      THEN WidthPanic(b)
                      ELSE [kind |-> "ok",
                            val  |-> Repeat("0", HexWidth - Len(encoded))
                                     \o encoded]
                 ELSE [kind |-> "ok", val |-> encoded]

---------------------------------------------------------------------------
(* The inputs of encode_num that are explored *)

MaxLen == 3
BigPad == 76

InputChars == {"0", "1", "5", "-", "+", "a"}

Pow256 == <<"1", "1", "5", "7", "9", "2", "0", "8", "9", "2", "3", "7", "3", "1", "6", "1", "9", "5", "4", "2", "3", "5", "7", "0", "9", "8", "5", "0", "0", "8", "6", "8", "7", "9", "0", "7", "8", "5", "3", "2", "6", "9", "9", "8", "4", "6", "6", "5", "6", "4", "0", "5", "6", "4", "0", "3", "9", "4", "5", "7", "5", "8", "4", "0", "0", "7", "9", "1", "3", "1", "2", "9", "6", "3", "9", "9", "3", "6">>

Pow256Minus1 == <<"1", "1", "5", "7", "9", "2", "0", "8", "9", "2", "3", "7", "3", "1", "6", "1", "9", "5", "4", "2", "3", "5", "7", "0", "9", "8", "5", "0", "0", "8", "6", "8", "7", "9", "0", "7", "8", "5", "3", "2", "6", "9", "9", "8", "4", "6", "6", "5", "6", "4", "0", "5", "6", "4", "0", "3", "9", "4", "5", "7", "5", "8", "4", "0", "0", "7", "9", "1", "3", "1", "2", "9", "6", "3", "9", "9", "3", "5">>

\* Every string of at most MaxLen input characters, alone and followed by
\* BigPad or BigPad + 1 zeros (values around 2^256), and 2^256 - 1 and 2^256
\* themselves, plain, zero-prefixed and signed.
ShortStrings == UNION {[1..k -> InputChars] : k \in 0..MaxLen}

EncInputs ==
    {s \o Repeat("0", p) : s \in ShortStrings, p \in {0, BigPad, BigPad + 1}}
    \cup {pre \o big : pre \in {<<>>, <<"0">>, <<"+">>, <<"-">>},
                       big \in {Pow256, Pow256Minus1}}

Builds == {"debug", "release"}

---------------------------------------------------------------------------
(* Values of the variables a specification does not use *)

NoResult == [kind |-> "none"]

EncIdle == enc_in = <<>> /\ enc_out = NoResult
LayIdle == lay_n = 0 /\ lay_out = NoResult
MainIdle ==
    /\ args_path = "none" /\ key = NoResult /\ template = <<>>
    /\ pc = "idle" /\ packed = <<>> /\ n_enc = 0 /\ contract = <<>>
    /\ n_sub = 0 /\ stdout = <<>> /\ stderr = <<>>

---------------------------------------------------------------------------
(* SpecEnc: encode_num applied to one input *)

InitEnc ==
    /\ build \in Builds
    /\ enc_in \in EncInputs
    /\ enc_out = NoResult
    /\ LayIdle /\ MainIdle

EncodeCall ==
    /\ enc_out = NoResult
    /\ enc_out' = encode_num(enc_in, build)
    /\ UNCHANGED <<build, enc_in, layVars, mainVars>>

NextEnc == EncodeCall

SpecEnc == InitEnc /\ [][NextEnc]_vars

---------------------------------------------------------------------------
(* Formatting and textual replacement *)

\* n.to_string() and format!("{}", n) of an unsigned integer.
RECURSIVE to_string(_)
to_string(n) ==
    IF n < 10 THEN <<DigitChar(n)>>
    ELSE Append(to_string(n \div 10), DigitChar(n % 10))

\* format!("{:x}", n): lowercase hex with the natural number of digits.
RECURSIVE LowerHex(_)
LowerHex(n) ==
    IF n < 16 THEN <<DigitChar(n)>>
    ELSE Append(LowerHex(n \div 16), DigitChar(n % 16))

Fmt_x(n) == <<"0", "x">> \o LowerHex(n)

\* format!("0x{:02x}", n): lowercase hex, zero-padded to at least 2 digits.
Fmt02x(n) ==
    LET h == LowerHex(n)
    IN  <<"0", "x">> \o (IF Len(h) < 2 THEN Repeat("0", 2 - Len(h)) ELSE <<>>) \o h

MatchAt(s, t, i) ==
    /\ i + Len(t) - 1 <= Len(s)
    /\ \A j \in 1..Len(t) : s[i + j - 1] = t[j]

\* str::replace(from, to): every non-overlapping match of the pattern t,
\* found left to right, becomes v; the rest of s is copied.
RECURSIVE ReplaceFrom(_, _, _, _)
ReplaceFrom(s, t, v, from) ==
    LET M == {i \in from..(Len(s) - Len(t) + 1) :
                 s[i] = t[1] /\ MatchAt(s, t, i)}
    IN  IF M = {} THEN SubSeq(s, from, Len(s))
        ELSE LET m == Min(M)
             IN  SubSeq(s, from, m - 1) \o v
                 \o ReplaceFrom(s, t, v, m + Len(t))

replace(s, t, v) == ReplaceFrom(s, t, v, 1)

---------------------------------------------------------------------------
(* Memory layout: the values main computes from key.ic.len() *)

\* Variant: one base of the table is off by 0x20.
PI_OFFSET_BASES_shifted ==
    <<0, 32, 64, 96, 128, 160, 192, 352, 416, 448, 576, 608, 640>>

PI_OFFSET_BASES ==
    <<0, 32, 64, 96, 128, 160, 192, 384, 416, 448, 576, 608, 640>>

ic_bytes(n_ics) == n_ics * 64

pairing_input_offset(n_ics) == 192 + n_ics * 64

input_ptr(n_ics) == pairing_input_offset(n_ics) + 768

\* The tokens of the template.
TagPackedVkey == <<"{", "{", "P", "A", "C", "K", "E", "D", "_", "V", "K", "E", "Y", "}", "}">>
TagNIcs == <<"{", "{", "N", "_", "I", "C", "S", "}", "}">>
TagIcBytes == <<"{", "{", "I", "C", "_", "B", "Y", "T", "E", "S", "}", "}">>
TagPubInputLenPtr == <<"{", "{", "P", "U", "B", "_", "I", "N", "P", "U", "T", "_", "L", "E", "N", "_", "P", "T", "R", "}", "}">>
TagPubInputPtr == <<"{", "{", "P", "U", "B", "_", "I", "N", "P", "U", "T", "_", "P", "T", "R", "}", "}">>
\* format!("{{{{pi_{}}}}}", i) and format!("{{{{in_{}}}}}", i)
TagPi(i) == <<"{", "{", "p", "i", "_">> \o to_string(i) \o <<"}", "}">>
TagIn(i) == <<"{", "{", "i", "n", "_">> \o to_string(i) \o <<"}", "}">>

\* Variant: rendering with {:x}, no minimum width.
RenderNarrow(n) == Fmt_x(n)

\* How main renders a layout quantity.
Render(n) == Fmt02x(n)

\* Variant: the pi loop stops one short of the table.
LayoutSubs_short(n_ics) ==
    <<  <<TagNIcs, Render(n_ics)>>,
        <<TagIcBytes, Render(ic_bytes(n_ics))>> >>
    \o [i \in 1..(Len(PI_OFFSET_BASES) - 1) |->
          <<TagPi(i - 1),
            Render(pairing_input_offset(n_ics) + PI_OFFSET_BASES[i])>>]
    \o << <<TagPubInputLenPtr, Render(input_ptr(n_ics) + 256)>>,
          <<TagPubInputPtr, Render(input_ptr(n_ics) + 288)>> >>
    \o [i \in 1..8 |-> <<TagIn(i - 1), Render(input_ptr(n_ics) + (i - 1) * 32)>>]

\* The replace calls of main after the first, in order: <<tag, value>>.
LayoutSubs(n_ics) ==
    <<  <<TagNIcs, Render(n_ics)>>,
        <<TagIcBytes, Render(ic_bytes(n_ics))>> >>
    \o [i \in 1..Len(PI_OFFSET_BASES) |->
          <<TagPi(i - 1),
            Render(pairing_input_offset(n_ics) + PI_OFFSET_BASES[i])>>]
    \o << <<TagPubInputLenPtr, Render(input_ptr(n_ics) + 256)>>,
          <<TagPubInputPtr, Render(input_ptr(n_ics) + 288)>> >>
    \o [i \in 1..8 |-> <<TagIn(i - 1), Render(input_ptr(n_ics) + (i - 1) * 32)>>]

---------------------------------------------------------------------------
(* SpecLayout: the layout values of one IC count *)

MaxIcCount == 60

InitLayout ==
    /\ build \in Builds
    /\ lay_n \in 0..MaxIcCount
    /\ lay_out = NoResult
    /\ EncIdle /\ MainIdle

\* main computes the layout of any IC count: nothing bounds it.
ComputeLayout ==
    /\ lay_out = NoResult
    /\ lay_out' = [kind |-> "ok", subs |-> LayoutSubs(lay_n)]
    /\ UNCHANGED <<build, lay_n, encVars, mainVars>>

NextLayout == ComputeLayout

SpecLayout == InitLayout /\ [][NextLayout]_vars

---------------------------------------------------------------------------
(* VerificationKey and to_packed *)

MaxIc == 2

\* Field elements of the explored keys: five different values, among them
\* zero and 2^256 - 1.
ValuePool ==
    << <<"0">>,
       <<"2", "5", "5">>,
       Pow256Minus1,
       <<"7">>,
       <<"1">> \o Repeat("0", 20) >>

\* The value of the i-th field element of the key of variant v.
ValueAt(v, i) == ValuePool[((v * i + v) % Len(ValuePool)) + 1]

\* A well-formed key with n IC points: the elements are numbered alpha1
\* 1..2, beta2 3..6, gamma2 7..10, delta2 11..14 (row by row, real then
\* imaginary), IC 15.. (x then y).
G2At(v, first) ==
    << <<ValueAt(v, first), ValueAt(v, first + 1)>>,
       <<ValueAt(v, first + 2), ValueAt(v, first + 3)>> >>

KeyOf(v, n, np) ==
    [n_public        |-> np,
     vk_alpha_1      |-> <<ValueAt(v, 1), ValueAt(v, 2)>>,
     vk_beta_2       |-> G2At(v, 3),
     vk_gamma_2      |-> G2At(v, 7),
     vk_delta_2      |-> G2At(v, 11),
     vk_alphabeta_12 |-> <<>>,
     ic              |-> [i \in 1..n |->
                            <<ValueAt(v, 13 + 2 * i), ValueAt(v, 14 + 2 * i)>>]]

\* The key k with its element number p (numbered as above) replaced by s.
WithElement(k, p, s) ==
    IF p <= 2 THEN [k EXCEPT !.vk_alpha_1[p] = s]
    ELSE IF p <= 6
         THEN [k EXCEPT !.vk_beta_2[((p - 3) \div 2) + 1][((p - 3) % 2) + 1] = s]
    ELSE IF p <= 10
         THEN [k EXCEPT !.vk_gamma_2[((p - 7) \div 2) + 1][((p - 7) % 2) + 1] = s]
    ELSE IF p <= 14
         THEN [k EXCEPT !.vk_delta_2[((p - 11) \div 2) + 1][((p - 11) % 2) + 1] = s]
    ELSE [k EXCEPT !.ic[((p - 15) \div 2) + 1][((p - 15) % 2) + 1] = s]

\* Elements encode_num does not turn into 64 hex digits.
BadElements == {<<>>, <<"1", "a">>, <<"-", "5">>, Pow256}

\* The elements in natural order (real before imaginary): the order of the
\* key, and a variant of the order of to_packed.
PackArgs_natural(k) ==
    << k.vk_alpha_1[1], k.vk_alpha_1[2],
       k.vk_beta_2[1][1], k.vk_beta_2[1][2],
       k.vk_beta_2[2][1], k.vk_beta_2[2][2],
       k.vk_gamma_2[1][1], k.vk_gamma_2[1][2],
       k.vk_gamma_2[2][1], k.vk_gamma_2[2][2],
       k.vk_delta_2[1][1], k.vk_delta_2[1][2],
       k.vk_delta_2[2][1], k.vk_delta_2[2][2],
       to_string(Len(k.ic)) >>
    \o [j \in 1..(2 * Len(k.ic)) |-> k.ic[(j + 1) \div 2][2 - (j % 2)]]

\* Variant: the count is taken from n_public, not from the IC sequence.
PackArgs_npublic(k) ==
    << k.vk_alpha_1[1], k.vk_alpha_1[2],
       k.vk_beta_2[1][2], k.vk_beta_2[1][1],
       k.vk_beta_2[2][2], k.vk_beta_2[2][1],
       k.vk_gamma_2[1][2], k.vk_gamma_2[1][1],
       k.vk_gamma_2[2][2], k.vk_gamma_2[2][1],
       k.vk_delta_2[1][2], k.vk_delta_2[1][1],
       k.vk_delta_2[2][2], k.vk_delta_2[2][1],
       to_string(k.n_public + 1) >>
    \o [j \in 1..(2 * Len(k.ic)) |-> k.ic[(j + 1) \div 2][2 - (j % 2)]]

\* The arguments of the encode_num calls of to_packed, in the order of the
\* calls (the source indexes from 0, sequences here from 1).
PackArgs(k) ==
    << k.vk_alpha_1[1], k.vk_alpha_1[2],
       k.vk_beta_2[1][2], k.vk_beta_2[1][1],
       k.vk_beta_2[2][2], k.vk_beta_2[2][1],
       k.vk_gamma_2[1][2], k.vk_gamma_2[1][1],
       k.vk_gamma_2[2][2], k.vk_gamma_2[2][1],
       k.vk_delta_2[1][2], k.vk_delta_2[1][1],
       k.vk_delta_2[2][2], k.vk_delta_2[2][1],
       to_string(Len(k.ic)) >>
    \o [j \in 1..(2 * Len(k.ic)) |-> k.ic[(j + 1) \div 2][2 - (j % 2)]]

---------------------------------------------------------------------------
(* The template *)

\* The 26 recognized tokens, in the order main replaces them.
RecognizedTokens ==
    << <<"{", "{", "P", "A", "C", "K", "E", "D", "_", "V", "K", "E", "Y", "}", "}">>,
       <<"{", "{", "N", "_", "I", "C", "S", "}", "}">>,
       <<"{", "{", "I", "C", "_", "B", "Y", "T", "E", "S", "}", "}">>,
       <<"{", "{", "p", "i", "_", "0", "}", "}">>,
       <<"{", "{", "p", "i", "_", "1", "}", "}">>,
       <<"{", "{", "p", "i", "_", "2", "}", "}">>,
       <<"{", "{", "p", "i", "_", "3", "}", "}">>,
       <<"{", "{", "p", "i", "_", "4", "}", "}">>,
       <<"{", "{", "p", "i", "_", "5", "}", "}">>,
       <<"{", "{", "p", "i", "_", "6", "}", "}">>,
       <<"{", "{", "p", "i", "_", "7", "}", "}">>,
       <<"{", "{", "p", "i", "_", "8", "}", "}">>,
       <<"{", "{", "p", "i", "_", "9", "}", "}">>,
       <<"{", "{", "p", "i", "_", "1", "0", "}", "}">>,
       <<"{", "{", "p", "i", "_", "1", "1", "}", "}">>,
       <<"{", "{", "p", "i", "_", "1", "2", "}", "}">>,
       <<"{", "{", "P", "U", "B", "_", "I", "N", "P", "U", "T", "_", "L", "E", "N", "_", "P", "T", "R", "}", "}">>,
       <<"{", "{", "P", "U", "B", "_", "I", "N", "P", "U", "T", "_", "P", "T", "R", "}", "}">>,
       <<"{", "{", "i", "n", "_", "0", "}", "}">>,
       <<"{", "{", "i", "n", "_", "1", "}", "}">>,
       <<"{", "{", "i", "n", "_", "2", "}", "}">>,
       <<"{", "{", "i", "n", "_", "3", "}", "}">>,
       <<"{", "{", "i", "n", "_", "4", "}", "}">>,
       <<"{", "{", "i", "n", "_", "5", "}", "}">>,
       <<"{", "{", "i", "n", "_", "6", "}", "}">>,
       <<"{", "{", "i", "n", "_", "7", "}", "}">> >>

NTokens == Len(RecognizedTokens)

Separators == {<<>>, <<"}", "\n">>, <<"0", "x", "{", " ">>}

RECURSIVE Joined(_, _, _)
Joined(order, sep, i) ==
    IF i > Len(order) THEN <<"\n">>
    ELSE RecognizedTokens[order[i]] \o sep \o Joined(order, sep, i + 1)

\* Templates with each token exactly once and no other "{{": the tokens in
\* the order of the replace calls or in the reverse order, one separator
\* after each.
TokenOrders == {[i \in 1..NTokens |-> i], [i \in 1..NTokens |-> NTokens + 1 - i]}

Templates == {Joined(o, sep, 1) : o \in TokenOrders, sep \in Separators}

---------------------------------------------------------------------------
(* Spec: one run of main *)

PathStates == {"none", "missing", "unreadable", "badjson"}

FreshRun ==
    /\ pc = "start" /\ packed = <<>> /\ n_enc = 0 /\ contract = <<>>
    /\ n_sub = 0 /\ stdout = <<>> /\ stderr = <<>>

Init ==
    /\ build \in Builds
    /\ EncIdle /\ LayIdle
    /\ FreshRun
    /\ \/ /\ args_path \in PathStates
          /\ key = NoResult
          /\ template \in Templates
       \/ /\ args_path = "ok"
          /\ template \in Templates
          /\ \E v \in 1..2, n \in 0..MaxIc, np \in {0, 3} : key = KeyOf(v, n, np)
       \/ /\ args_path = "ok"
          /\ template = Joined([i \in 1..NTokens |-> i], <<>>, 1)
          /\ \E n \in 0..MaxIc, bad \in BadElements :
               \E p \in 1..(14 + 2 * n) : key = WithElement(KeyOf(1, n, n), p, bad)

Panic(msg) ==
    /\ pc' = "panicked"
    /\ stderr' = Append(stderr, msg)

\* args.path is None.
NoPath ==
    /\ pc = "start" /\ args_path = "none"
    /\ stderr' = Append(stderr, "No file path provided!")
    /\ pc' = "done"
    /\ UNCHANGED <<build, encVars, layVars, args_path, key, template, packed,
                   n_enc, contract, n_sub, stdout>>

\* path.exists() is false.
PathMissing ==
    /\ pc = "start" /\ args_path = "missing"
    /\ stderr' = Append(stderr, "File does not exist!")
    /\ pc' = "done"
    /\ UNCHANGED <<build, encVars, layVars, args_path, key, template, packed,
                   n_enc, contract, n_sub, stdout>>

\* parse_verification_key: File::open fails.
OpenFails ==
    /\ pc = "start" /\ args_path = "unreadable"
    /\ stderr' = Append(stderr, "Error reading file contents!")
    /\ pc' = "done"
    /\ UNCHANGED <<build, encVars, layVars, args_path, key, template, packed,
                   n_enc, contract, n_sub, stdout>>

\* parse_verification_key: serde_json::from_reader fails and expect panics.
BadJson ==
    /\ pc = "start" /\ args_path = "badjson"
    /\ Panic("Error while deserializing verification key JSON.")
    /\ UNCHANGED <<build, encVars, layVars, args_path, key, template, packed,
                   n_enc, contract, n_sub, stdout>>

\* parse_verification_key returns Ok(key); to_packed starts with "0x".
KeyParsed ==
    /\ pc = "start" /\ args_path = "ok"
    /\ pc' = "pack"
    /\ packed' = <<"0", "x">>
    /\ UNCHANGED <<build, encVars, layVars, args_path, key, template,
                   n_enc, contract, n_sub, stdout, stderr>>

\* The next encode_num call of to_packed: its result is appended, or its
\* panic ends the run.  After the last one to_packed returns.
PackStep ==
    /\ pc = "pack"
    /\ LET args == PackArgs(key)
           r == encode_num(args[n_enc + 1], build)
       IN  IF r.kind = "panic"
           THEN /\ Panic(r.msg)
                /\ UNCHANGED <<packed, n_enc>>
           ELSE /\ packed' = packed \o r.val
                /\ n_enc' = n_enc + 1
                /\ pc' = IF n_enc + 1 = Len(args) THEN "subst" ELSE "pack"
                /\ UNCHANGED stderr
    /\ UNCHANGED <<build, encVars, layVars, args_path, key, template,
                   contract, n_sub, stdout>>

\* The replace calls of main, in order: the packed key into the template,
\* then the layout values into contract.
Substitutions(k, pk) == << <<TagPackedVkey, pk>> >> \o LayoutSubs(Len(k.ic))

SubstStep ==
    /\ pc = "subst"
    /\ LET subs == Substitutions(key, packed)
           sub == subs[n_sub + 1]
       IN  /\ contract' = replace(IF n_sub = 0 THEN template ELSE contract,
                                  sub[1], sub[2])
           /\ n_sub' = n_sub + 1
           /\ pc' = IF n_sub + 1 = Len(subs) THEN "print" ELSE "subst"
    /\ UNCHANGED <<build, encVars, layVars, args_path, key, template, packed,
                   n_enc, stdout, stderr>>

\* Variant: the contract is printed before the replace calls are over.
PrintReady_early == pc \in {"subst", "print"} /\ n_sub > 0

\* println!("{}", contract) comes after the last replace call.
PrintReady == pc = "print"

PrintContract ==
    /\ PrintReady
    /\ stdout' = Append(stdout, contract)
    /\ pc' = "done"
    /\ UNCHANGED <<build, encVars, layVars, args_path, key, template, packed,
                   n_enc, contract, n_sub, stderr>>

Next ==
    \/ NoPath \/ PathMissing \/ OpenFails \/ BadJson \/ KeyParsed
    \/ PackStep \/ SubstStep \/ PrintContract

Spec == Init /\ [][Next]_vars

---------------------------------------------------------------------------
(* Notions the properties are stated with *)

\* A non-empty string of decimal digits.
IsDecimal(s) == s # <<>> /\ \A i \in 1..Len(s) : s[i] \in DecCharSet

\* The digit values of a string of digits, without leading zeros.
DigitsOf(s) == StripZeros([i \in 1..Len(s) |-> DigitVal(s[i])])

\* a < b, for digit sequences without leading zeros.
DigitsLess(a, b) ==
    \/ Len(a) < Len(b)
    \/ /\ Len(a) = Len(b)
       /\ \E i \in 1..Len(a) : a[i] < b[i] /\ \A j \in 1..(i - 1) : a[j] = b[j]

\* The decimal string s is a value below 2^256.
Pow256Digits == DigitsOf(Pow256)
BelowPow256(s) == DigitsLess(DigitsOf(s), Pow256Digits)

IsLowerHex(s) == \A i \in 1..Len(s) : s[i] \in HexCharSet

\* The value of a short digit sequence in base b.
RECURSIVE SeqValue(_, _)
SeqValue(d, b) ==
    IF d = <<>> THEN 0
    ELSE SeqValue(SubSeq(d, 1, Len(d) - 1), b) * b + d[Len(d)]

\* A verification key whose elements are all decimal strings below 2^256.
KeyElements(k) == PackArgs_natural(k)
WellFormedKey(k) ==
    /\ k # NoResult
    /\ \A i \in 1..Len(KeyElements(k)) :
         IsDecimal(KeyElements(k)[i]) /\ BelowPow256(KeyElements(k)[i])

\* to_packed has returned, and packed is what it returned.
PackReturned == pc \in {"subst", "print", "done"}

\* The j-th 64-character segment after the "0x" prefix of the packed key.
Segment(j) == SubSeq(packed, 2 + HexWidth * (j - 1) + 1, 2 + HexWidth * j)

\* The segment reads, in base 16, as the value of the decimal string s.
SegmentIs(j, s) ==
    /\ Len(packed) >= 2 + HexWidth * j
    /\ IsLowerHex(Segment(j))
    /\ HexToDec(DigitsOf(Segment(j))) = DigitsOf(s)

\* The places where the text s holds "{{", and where it holds "}}".
Opens(s) == {i \in 1..(Len(s) - 1) : s[i] = "{" /\ s[i + 1] = "{"}
Closes(s) == {i \in 1..(Len(s) - 1) : s[i] = "}" /\ s[i + 1] = "}"}

\* The text holds a "{{...}}".
HasPlaceholder(s) == \E i \in Opens(s) : \E j \in Closes(s) : j >= i + 2

\* The 25 layout tokens.
ExpectedTags == Tail(RecognizedTokens)

\* Each of the 26 tokens exactly once, and no other "{{".
EachTokenOnce(s) ==
    /\ Cardinality(Opens(s)) = Len(RecognizedTokens)
    /\ \A t \in 1..Len(RecognizedTokens) :
         Cardinality({i \in Opens(s) : MatchAt(s, RecognizedTokens[t], i)}) = 1

\* The number a substituted layout value stands for: "0x" and hex digits.
LayoutDigits(v) == SubSeq(v, 3, Len(v))
LayoutValue(v) == SeqValue(DigitsOf(LayoutDigits(v)), 16)
LayoutTag(i) == lay_out.subs[i][1]
LayoutText(i) == lay_out.subs[i][2]

ExpectedBases ==
    <<0, 32, 64, 96, 128, 160, 192, 384, 416, 448, 576, 608, 640>>

---------------------------------------------------------------------------
(* Properties of encode_num, under SpecEnc *)

\* C1: for a decimal string of a value in [0, 2^256), encode_num returns
\* exactly 64 lowercase hex digits which, read in base 16, are that value.
C1_EncodeRoundTrip ==
    (enc_out # NoResult /\ IsDecimal(enc_in) /\ BelowPow256(enc_in)) =>
        /\ enc_out.kind = "ok"
        /\ Len(enc_out.val) = 64
        /\ IsLowerHex(enc_out.val)
        /\ HexToDec(DigitsOf(enc_out.val)) = DigitsOf(enc_in)

C1_Witness ==
    /\ enc_in = Pow256Minus1
    /\ enc_out.kind = "ok"
    /\ enc_out.val = Repeat("f", 64)

\* C2: for a decimal string of a value of 2^256 or more, encode_num fails
\* on the width of the value (it is not a parse failure) and returns no
\* string, truncated or not.
C2_OverflowFails ==
    (enc_out # NoResult /\ IsDecimal(enc_in) /\ ~BelowPow256(enc_in)) =>
        /\ enc_out.kind = "panic"
        /\ enc_out.msg \in {"attempt to subtract with overflow",
                            "capacity overflow"}

C2_Witness ==
    /\ enc_in = Pow256
    /\ enc_out.kind = "panic"

\* C3: encode_num accepts only non-negative base-10 integers (digits, here
\* also with a "+" before them): every other input fails to parse, and a
\* returned encoding holds only the characters 0-9a-f.
C3_OnlyNonNegativeAccepted ==
    enc_out # NoResult =>
        /\ ~(IsDecimal(enc_in) \/ (Len(enc_in) > 1 /\ enc_in[1] = "+"
                                   /\ IsDecimal(Tail(enc_in))))
             => enc_out = ParsePanic
        /\ enc_out.kind = "ok" => IsLowerHex(enc_out.val)

---------------------------------------------------------------------------
(* Properties of to_packed and of the run of main, under Spec *)

\* C4: for a well-formed key the first 14 segments of the packed key are
\* alpha1.x, alpha1.y, then for beta2, gamma2 and delta2 in turn row 0
\* imaginary, row 0 real, row 1 imaginary, row 1 real.
C4_G2ImagBeforeReal ==
    (PackReturned /\ WellFormedKey(key)) =>
        /\ SubSeq(packed, 1, 2) = <<"0", "x">>
        /\ SegmentIs(1, key.vk_alpha_1[1])
        /\ SegmentIs(2, key.vk_alpha_1[2])
        /\ \A g \in 0..2 : \A row \in 0..1 :
             LET pt == IF g = 0 THEN key.vk_beta_2
                       ELSE IF g = 1 THEN key.vk_gamma_2 ELSE key.vk_delta_2
             IN  /\ SegmentIs(3 + 4 * g + 2 * row, pt[row + 1][2])
                 /\ SegmentIs(4 + 4 * g + 2 * row, pt[row + 1][1])

C4_Witness ==
    /\ pc = "done" /\ stdout # <<>>
    /\ WellFormedKey(key)
    /\ \A row \in 1..2 :
         /\ DigitsOf(key.vk_beta_2[row][1]) # DigitsOf(key.vk_beta_2[row][2])
         /\ DigitsOf(key.vk_gamma_2[row][1]) # DigitsOf(key.vk_gamma_2[row][2])
         /\ DigitsOf(key.vk_delta_2[row][1]) # DigitsOf(key.vk_delta_2[row][2])

\* C5: for a well-formed key with n IC points, whatever n_public is, the
\* packed key is "0x" and (14 + 1 + 2n) * 64 hex digits with no other "0x",
\* segment 15 is n, and the segments after it are the IC points in order,
\* x then y.
C5_PackedLengthAndIc ==
    (PackReturned /\ WellFormedKey(key)) =>
        LET n == Len(key.ic)
        IN  /\ SubSeq(packed, 1, 2) = <<"0", "x">>
            /\ Len(packed) = 2 + (14 + 1 + 2 * n) * 64
            /\ IsLowerHex(SubSeq(packed, 3, Len(packed)))
            /\ \A i \in 2..(Len(packed) - 1) :
                 ~(packed[i] = "0" /\ packed[i + 1] = "x")
            /\ IsLowerHex(Segment(15))
            /\ SeqValue(DigitsOf(Segment(15)), 16) = n
            /\ \A i \in 1..n :
                 /\ SegmentIs(14 + 2 * i, key.ic[i][1])
                 /\ SegmentIs(15 + 2 * i, key.ic[i][2])

C5_Witness ==
    /\ pc = "done" /\ stdout # <<>>
    /\ WellFormedKey(key)
    /\ Len(key.ic) >= 2
    /\ key.n_public + 1 # Len(key.ic)
    /\ DigitsOf(key.ic[1][1]) # DigitsOf(key.ic[2][1])

\* C8: for a template with each of the 26 tokens exactly once and no other
\* "{{", and a well-formed key, the text produced holds no "{{...}}".
C8_NoTokenLeft ==
    (stdout # <<>> /\ WellFormedKey(key) /\ EachTokenOnce(template)) =>
        ~HasPlaceholder(stdout[1])

C8_Witness ==
    /\ stdout # <<>> /\ WellFormedKey(key) /\ EachTokenOnce(template)
    /\ HasPlaceholder(template)
    /\ template[1] = "{" /\ template[3] = "i"

\* C10: the contract is printed only after every encode_num call and all
\* 26 replace calls have returned, and in a run that failed (a missing or
\* unreadable file, a panic) nothing is printed to standard output.
C10_NoPartialOutput ==
    /\ stdout # <<>> =>
         /\ pc = "done"
         /\ stderr = <<>>
         /\ n_enc = 14 + 1 + 2 * Len(key.ic)
         /\ n_sub = 26
         /\ stdout = <<contract>>
    /\ (pc = "panicked" \/ stderr # <<>> \/ args_path # "ok") => stdout = <<>>

C10_Witness ==
    /\ pc = "panicked"
    /\ n_enc >= 15
    /\ stdout = <<>>

---------------------------------------------------------------------------
(* Properties of the layout values, under SpecLayout *)

\* C6: the values substituted for the layout tokens are, for IC count n:
\* IC_BYTES n * 0x40; pi_k 0xC0 + n * 0x40 + B[k] for the 13 bases B in
\* order; with input_ptr = 0xC0 + n * 0x40 + 0x300, PUB_INPUT_LEN_PTR
\* input_ptr + 0x100, PUB_INPUT_PTR input_ptr + 0x120 and in_i input_ptr +
\* i * 0x20; for n = 1 these are 0x40, 0x100 (pi_0), 0x1C0 (pi_6), 0x400
\* (in_0), 0x500 and 0x520.
C6_LayoutValues ==
    lay_out # NoResult =>
        /\ lay_out.kind = "ok"
        /\ Len(lay_out.subs) = 25
        /\ \A i \in 1..25 :
             /\ LayoutTag(i) = ExpectedTags[i]
             /\ SubSeq(LayoutText(i), 1, 2) = <<"0", "x">>
             /\ IsLowerHex(LayoutDigits(LayoutText(i)))
        /\ LayoutValue(LayoutText(1)) = lay_n
        /\ LayoutValue(LayoutText(2)) = lay_n * 64
        /\ \A k \in 0..12 :
             LayoutValue(LayoutText(3 + k)) = 192 + lay_n * 64 + ExpectedBases[k + 1]
        /\ LayoutValue(LayoutText(16)) = 192 + lay_n * 64 + 768 + 256
        /\ LayoutValue(LayoutText(17)) = 192 + lay_n * 64 + 768 + 288
        /\ \A i \in 0..7 :
             LayoutValue(LayoutText(18 + i)) = 192 + lay_n * 64 + 768 + i * 32
        /\ lay_n = 1 =>
             /\ LayoutValue(LayoutText(2)) = 64
             /\ LayoutValue(LayoutText(3)) = 256
             /\ LayoutValue(LayoutText(9)) = 448
             /\ LayoutValue(LayoutText(18)) = 1024
             /\ LayoutValue(LayoutText(16)) = 1280
             /\ LayoutValue(LayoutText(17)) = 1312

C6_Witness ==
    /\ lay_n = 1
    /\ lay_out.kind = "ok"
    /\ LayoutText(9) = <<"0", "x", "1", "c", "0">>

\* C7: with more than 8 public inputs (more than 9 IC points) the layout
\* computation fails, and produces no layout values.
C7_TooManyPublicInputsFails ==
    (lay_out # NoResult /\ lay_n - 1 > 8) => lay_out.kind # "ok"

\* C9, as claimed: every layout value is rendered with the natural minimal
\* number of hex digits, with no leading zero digit for a non-zero value.
C9_MinimalHex ==
    lay_out # NoResult =>
        \A i \in 1..Len(lay_out.subs) :
            LayoutValue(LayoutText(i)) # 0 => LayoutDigits(LayoutText(i))[1] # "0"

\* C9, as amended: every layout value is rendered as "0x" and lowercase hex
\* digits zero-padded to at least two digits: a value of 0x10 or more has
\* its natural digits, a value below 0x10 has two digits, the first "0".
C9_TwoDigitMinimumHex ==
    lay_out # NoResult =>
        \A i \in 1..Len(lay_out.subs) :
            LET h == LayoutDigits(LayoutText(i))
            IN  /\ SubSeq(LayoutText(i), 1, 2) = <<"0", "x">>
                /\ IsLowerHex(h)
                /\ Len(h) >= 2
                /\ (h[1] = "0") <=> (LayoutValue(LayoutText(i)) < 16)
                /\ h[1] = "0" => Len(h) = 2

C9_Witness ==
    /\ lay_n = 1
    /\ lay_out.kind = "ok"
    /\ LayoutText(1) = <<"0", "x", "0", "1">>
    /\ LayoutText(2) = <<"0", "x", "4", "0">>

============================================================================
